---- MODULE Spec2Model ----
(***************************************************************************)
(* The throughput-test session of lan-speedtest (backend/main.go): the     *)
(* SpeedTest session object, the control read-loop handleWebSocket and the *)
(* driver loop runSpeedTest.  main.go holds two builds of the backend: the *)
(* pull-based one (lines 1-249, a timed TCP download per sample, a         *)
(* `duration` on start) and the simulated one (lines 250-411, 20 random    *)
(* samples, a `final` pushed by the stop handler).  `build` selects one.   *)
(*                                                                         *)
(* float64 values are modelled as exact fractions [n, d] in lowest terms.  *)
(* The clock is in whole seconds.                                          *)
(***************************************************************************)
EXTENDS Integers, Sequences, FiniteSets, TLC

VARIABLES
    build,      \* 1: pull-based build (main.go:1-249), 2: simulated build (main.go:250-411)
    st,         \* the SpeedTest session: active, speeds, startTime
    now,        \* the wall clock, in seconds
    conn,       \* the websocket: "up", "down" (transport failed), "closed" (handler returned)
    hpc,        \* where handleWebSocket is: "read", "final" (build 2, after stop()), "exit"
    loops,      \* the runSpeedTest goroutines, one per start command
    out,        \* the messages written to the client, in write order
    cur,        \* number of start() calls so far: the current run
    nframes,    \* number of inbound frames handled
    mu,         \* the loops inside st.mu: between Lock() and the deferred Unlock()
    budget,     \* number of frames the peer sends on this connection
    maxRuns,    \* number of start frames among them
    horizon,    \* how far the clock is followed
    call,       \* a single call of a function on given arguments, and its result
    locks,      \* whether st.mu.Lock() of a loop is followed as a step of its own
    stalls,     \* whether a download may go unanswered: no data, no end, no error
    hist,       \* history: per run, the samples appended while it was current
    origin,     \* history: per element of st.speeds, the run it was measured in
    ender,      \* history: who turned active from true to false in the current run
    clean,      \* history: at the last start(), every earlier run had had its final sent
    stopped     \* history: the runs a stop() call has ended, their loop not yet returned

\* The program's state, and the history kept to state the claims.
setup == <<budget, maxRuns, horizon, call, locks, stalls>>
prog == <<build, st, now, conn, hpc, loops, out, cur, nframes, mu, setup>>
ghost == <<hist, origin, ender, clean, stopped>>
vars == <<prog, ghost>>

(***************************************************************************)
(* Bounds of the model.                                                    *)
(***************************************************************************)
MaxFrames == 2      \* inbound frames per connection
MaxTime == 2        \* the clock stops here
MaxXfer == 1        \* longest a download may take, in seconds
MaxDuration == 2    \* the `duration` of a start frame that carries one
SimIterations == 3  \* iterations of the simulated loop of build 2 (main.go:370 has 20)
IntBits == 28       \* width of the model's int64: TLC computes in 32 bits (main.go:90 has 64)
MaxSamples == 3     \* longest samples sequence handed to getAverage on its own
MaxSeconds == 2     \* longest elapsed time handed to measureSpeed on its own

(***************************************************************************)
(* Program constants.                                                      *)
(***************************************************************************)
chunkSize == 1048576        \* main.go:39
defaultDuration == 10       \* main.go:229
sleepSeconds == 1           \* main.go:185, main.go:389

(***************************************************************************)
(* Fractions standing for float64.                                         *)
(***************************************************************************)
RECURSIVE Gcd(_, _)
\* Operands are bound once (x \in {e}), so that one evaluation of an operator
\* evaluates each operand once however often the body names it.
Gcd(a, b) ==
    IF b = 0 THEN a ELSE CHOOSE g \in {Gcd(y, x % y) : <<x, y>> \in {<<a, b>>}} : TRUE

Abs(x) == IF x < 0 THEN -x ELSE x

Frac(n, d) ==
    CHOOSE r \in {IF x = 0 THEN [n |-> 0, d |-> 1] ELSE [n |-> x \div g, d |-> y \div g] :
                  <<x, y, g>> \in {<<n, d, Gcd(Abs(n), Abs(d))>>}} : TRUE

Zero == [n |-> 0, d |-> 1]

FracAdd(a, b) ==
    CHOOSE r \in {Frac(x.n * (l \div x.d) + y.n * (l \div y.d), l) :
                  <<x, y, l>> \in {<<a, b, (a.d \div Gcd(a.d, b.d)) * b.d>>}} : TRUE

FracDivInt(a, k) ==
    LET g == Gcd(Abs(a.n), k)
    IN  Frac(a.n \div g, a.d * (k \div g))

RECURSIVE SumSeq(_)
SumSeq(s) == IF s = <<>> THEN Zero ELSE FracAdd(s[1], SumSeq(Tail(s)))

\* The arithmetic mean as the specification states it: sum/len, 0 when empty.
Mean(s) == IF s = <<>> THEN Zero ELSE FracDivInt(SumSeq(s), Len(s))

(***************************************************************************)
(* SpeedTest: the session and its four methods, each under st.mu.          *)
(***************************************************************************)
NewSpeedTest == [active |-> FALSE, speeds |-> <<>>, startTime |-> 0]

start(s, t) == [active |-> TRUE, speeds |-> <<>>, startTime |-> t]

\* A stop() that also drops the samples: C7 is checked against it.
stop_clearing(s) == [s EXCEPT !.active = FALSE, !.speeds = <<>>]

stop(s) == [s EXCEPT !.active = FALSE]

\* An addSpeed() without the `if st.active`: C5 is checked against it.
addSpeed_unguarded(s, speed) == [s EXCEPT !.speeds = Append(s.speeds, speed)]

addSpeed(s, speed) ==
    IF s.active THEN [s EXCEPT !.speeds = Append(s.speeds, speed)] ELSE s

RECURSIVE sumLoop(_, _)
sumLoop(speeds, sum) ==
    IF speeds = <<>> THEN sum
    ELSE CHOOSE r \in {sumLoop(t, x) :
                       <<t, x>> \in {<<Tail(speeds), FracAdd(sum, Head(speeds))>>}} : TRUE

\* A getAverage() that returns the sum: C11 is checked against it.
getAverage_undivided(s) ==
    IF Len(s.speeds) = 0 THEN Zero ELSE sumLoop(s.speeds, Zero)

getAverage(s) ==
    IF Len(s.speeds) = 0 THEN Zero
    ELSE FracDivInt(sumLoop(s.speeds, Zero), Len(s.speeds))

(***************************************************************************)
(* st.mu: each of the four methods begins with st.mu.Lock() and            *)
(* `defer st.mu.Unlock()`.  mu holds the loops that are inside; where      *)
(* `locks` is off a method call is one step and mu stays empty.  The       *)
(* handler's calls are one step each: they wait while a loop is inside.    *)
(***************************************************************************)
\* A method that returns without unlocking: C22 is checked against it.
Unlock_missing(m, l) == m

\* defer st.mu.Unlock(): at the method's return loop l is out of st.mu.
Unlock(m, l) == m \ {l}

\* Loop l is past the st.mu.Lock() of the method it is calling.
Locked(l) == IF locks THEN l \in mu ELSE mu = {}

(***************************************************************************)
(* measureSpeed: bits / 1000000 / seconds, 0 when seconds is 0.  bytes * 8 *)
(* is an int64 product, which wraps around; the model keeps the wrap at    *)
(* its own width.                                                          *)
(***************************************************************************)
\* An int64 result: two's complement wrap-around.
Wrap(x) == ((x + 2^(IntBits - 1)) % 2^IntBits) - 2^(IntBits - 1)

measureSpeed(bytes, seconds) ==
    LET bits == Wrap(bytes * 8)
    IN  IF seconds = 0 THEN Zero ELSE Frac(bits, 1000000 * seconds)

(***************************************************************************)
(* Inbound frames and their decoding (conn.ReadMessage, json.Unmarshal).   *)
(* A frame is text or binary; its payload is well-formed JSON or not; a    *)
(* well-formed payload has a type and, on start, a duration (0 = absent).  *)
(***************************************************************************)
Durations == {0, MaxDuration}

Frames ==
    {[text |-> TRUE, json |-> TRUE, type |-> "start", duration |-> d] : d \in Durations}
    \cup {[text |-> TRUE, json |-> TRUE, type |-> "stop", duration |-> 0],
          [text |-> TRUE, json |-> TRUE, type |-> "ping", duration |-> 0],
          [text |-> TRUE, json |-> FALSE, type |-> "start", duration |-> 0],
          [text |-> FALSE, json |-> TRUE, type |-> "stop", duration |-> 0]}

\* A decoder that accepts a truncated payload: C10 is checked against it.
Unmarshal_lenient(f) ==
    [err |-> FALSE, Type |-> f.type, Duration |-> IF build = 1 THEN f.duration ELSE 0]

\* json.Unmarshal(message, &msg): an error on malformed JSON, else the decoded
\* SpeedTestMessage.  The message struct of build 2 has no Duration field.
Unmarshal(f) ==
    IF ~f.json
    THEN [err |-> TRUE, Type |-> "", Duration |-> 0]
    ELSE [err |-> FALSE, Type |-> f.type,
          Duration |-> IF build = 1 THEN f.duration ELSE 0]

\* The frames the read-loop must skip: binary, malformed JSON, unknown type.
BadFrames == {f \in Frames : ~f.text \/ ~f.json \/ f.type \notin {"start", "stop"}}

(***************************************************************************)
(* Outbound messages.  type and val are on the wire; run and by are        *)
(* history: the run the message belongs to and who wrote it.               *)
(***************************************************************************)
SpeedMsg(v, r) == [type |-> "speed", val |-> v, run |-> r, by |-> "loop"]

FinalMsg(a, r, who) == [type |-> "final", val |-> a, run |-> r, by |-> who]

FinalsOf(r) == {k \in DOMAIN out : out[k].type = "final" /\ out[k].run = r}

SpeedsOf(r) == {k \in DOMAIN out : out[k].type = "speed" /\ out[k].run = r}

(***************************************************************************)
(* The driver goroutines.  Loop l is the one launched by the l-th start;   *)
(* a connection launches at most two.                                      *)
(***************************************************************************)
Loops == {1, 2}

\* pc, duration, endTime, the download's start, speed, i, the sleep's end and
\* the final's average are the goroutine's position and locals.  History:
\* mrun (the run the pending sample was measured in), erun (the run its
\* stop() ended), own (that stop() found the session running), werr (a write
\* of its failed), derr (a download failed), gerr (the pending sample is of a
\* download whose payload generateTestData failed to produce).
IdleLoop ==
    [pc |-> "idle", duration |-> 0, endTime |-> 0, t0 |-> 0, speed |-> Zero, i |-> 0,
     wake |-> 0, avg |-> Zero,
     mrun |-> 0, erun |-> 0, own |-> FALSE, werr |-> FALSE, derr |-> FALSE,
     gerr |-> FALSE]

\* runSpeedTest has returned: its locals are gone; what it was called with
\* and derr are kept.
Returned(r) == [IdleLoop EXCEPT !.pc = "done", !.duration = r.duration, !.derr = r.derr]

\* go runSpeedTest(conn, speedTest, duration): build 1
Launched1(duration) == [IdleLoop EXCEPT !.pc = "init", !.duration = duration]

\* go runSpeedTest(conn, speedTest): build 2, for i := 0
Launched2 == [IdleLoop EXCEPT !.pc = "cond"]

\* A comparison that lets the deadline itself through: C3 is checked against it.
Before_orEqual(t, u) == t <= u

\* time.Time.Before
Before(t, u) == t < u

\* 100.0 + math.Floor(rand.Float64()*900.0)
SimSpeeds == {Frac(100, 1)}

\* No function is under test.
NoCall == [op |-> "none", st |-> NewSpeedTest, bytes |-> 0, seconds |-> 0,
           ret |-> Zero, after |-> NewSpeedTest, done |-> FALSE,
           spc |-> "none", writes |-> 0, wrote |-> 0, avail |-> 0,
           rpc |-> "none", got |-> 0]

\* The state after upgrade and &SpeedTest{}, for a peer that sends b frames,
\* r of them start frames, with the clock followed up to h.
InitProg(b, r, h) ==
    /\ build \in {1, 2}
    /\ st = NewSpeedTest
    /\ now = 0
    /\ conn = "up"
    /\ hpc = "read"
    /\ loops = [l \in Loops |-> IdleLoop]
    /\ out = <<>>
    /\ cur = 0
    /\ nframes = 0
    /\ mu = {}
    /\ budget = b
    /\ maxRuns = r
    /\ horizon = h
    /\ hist = <<>>
    /\ origin = <<>>
    /\ ender = "none"
    /\ clean = TRUE
    /\ stopped = {}

InitWith(b, r, h) ==
    InitProg(b, r, h) /\ call = NoCall /\ locks = FALSE /\ stalls = FALSE

Init == InitWith(MaxFrames, Cardinality(Loops), MaxTime)

\* One more frame: room for start, stop, start.
InitDeep == InitWith(MaxFrames + 1, Cardinality(Loops), MaxTime)

(***************************************************************************)
(* handleWebSocket: the control read-loop.                                 *)
(***************************************************************************)
\* conn.ReadMessage returns a frame.
CanRead == hpc = "read" /\ conn = "up"

\* A handler that passes msg.Duration on as it is: C9 is checked against it.
StartDuration_asGiven(msg) == msg.Duration

\* The duration handed to runSpeedTest: msg.Duration, 10 when it is 0.
StartDuration(msg) == IF msg.Duration = 0 THEN defaultDuration ELSE msg.Duration

\* {"type": "start"}: speedTest.start(), default the duration, launch the loop.
HStart(f) ==
    LET msg == Unmarshal(f) IN
    /\ CanRead /\ nframes < budget /\ cur < maxRuns /\ cur + 1 \in Loops
    /\ f.text /\ ~msg.err /\ msg.Type = "start"
    /\ mu = {}
    /\ st' = start(st, now)
    /\ cur' = cur + 1
    /\ nframes' = nframes + 1
    /\ loops' = [loops EXCEPT ![cur + 1] =
           IF build = 1 THEN Launched1(StartDuration(msg)) ELSE Launched2]
    /\ hist' = Append(hist, <<>>)
    /\ origin' = <<>>
    /\ ender' = "none"
    /\ clean' = \A q \in 1..cur : FinalsOf(q) # {}
    /\ UNCHANGED <<build, now, conn, hpc, out, setup, mu, stopped>>

\* {"type": "stop"}: speedTest.stop(); build 2 goes on to push the final.
\* At hpc = "final" the handler has getAverage() and conn.WriteJSON(finalMsg)
\* ahead with nothing to wait for: it is in its write.  The session is not
\* running and only this handler restarts it, so the average of the write
\* is the one getAverage() returns at any moment of it.
HStop(f) ==
    LET msg == Unmarshal(f) IN
    /\ CanRead /\ nframes < budget
    /\ f.text /\ ~msg.err /\ msg.Type = "stop"
    /\ mu = {}
    /\ st' = stop(st)
    /\ nframes' = nframes + 1
    /\ hpc' = IF build = 2 THEN "final" ELSE "read"
    /\ ender' = IF st.active THEN "handler" ELSE ender
    /\ stopped' = IF st.active THEN stopped \cup {cur} ELSE stopped
    /\ UNCHANGED <<build, now, conn, loops, out, cur, setup, mu, hist, origin, clean>>

\* A binary frame, a frame json.Unmarshal rejects (continue), or an unknown type.
HSkip(f) ==
    LET msg == Unmarshal(f) IN
    /\ CanRead /\ nframes < budget
    /\ ~f.text \/ msg.err \/ msg.Type \notin {"start", "stop"}
    /\ nframes' = nframes + 1
    /\ UNCHANGED <<build, st, now, conn, hpc, loops, out, cur, setup, mu, ghost>>

\* Everything the read-loop does with one inbound frame f.
Handle(f) == HStart(f) \/ HStop(f) \/ HSkip(f)

\* Build 2, after stop(): finalMsg{Average: getAverage()}, conn.WriteJSON succeeds.
HFinalOk ==
    /\ hpc = "final" /\ conn = "up"
    /\ mu = {}
    /\ out' = Append(out, FinalMsg(getAverage(st), cur, "handler"))
    /\ hpc' = "read"
    /\ UNCHANGED <<build, st, now, conn, loops, cur, nframes, setup, mu, ghost>>

\* Build 2: the write fails: break, and the deferred conn.Close() runs.
HFinalErr ==
    /\ hpc = "final"
    /\ hpc' = "exit"
    /\ conn' = "closed"
    /\ UNCHANGED <<build, st, now, loops, out, cur, nframes, setup, mu, ghost>>

\* conn.ReadMessage returns an error: break, and the deferred conn.Close()
\* runs.  A transport failure shows at the first write or read after it; the
\* model lets a write meet it first.
HReadErr ==
    /\ hpc = "read" /\ conn = "down"
    /\ hpc' = "exit"
    /\ conn' = "closed"
    /\ UNCHANGED <<build, st, now, loops, out, cur, nframes, setup, mu, ghost>>

(***************************************************************************)
(* runSpeedTest: the driver loop, one step per statement that reads or     *)
(* writes shared state (the session, the clock, the websocket).            *)
(***************************************************************************)
\* A step of loop l that touches nothing but its own locals.
Local(l, r) ==
    /\ loops' = [loops EXCEPT ![l] = r]
    /\ UNCHANGED <<build, st, now, conn, hpc, out, cur, nframes, setup, mu, ghost>>

\* Build 1: endTime := time.Now().Add(duration * time.Second)
LoopInit(l) ==
    /\ loops[l].pc = "init"
    /\ Local(l, [loops[l] EXCEPT !.pc = "cond", !.endTime = now + loops[l].duration])

\* A loop condition without the deadline: C20 is checked against it.
LoopCond1_noDeadline(l) == st.active

\* Build 1 loop condition: time.Now().Before(endTime) && speedTest.active
LoopCond1(l) == Before(now, loops[l].endTime) /\ st.active

\* Build 2 loop condition: i < 20, and no break on !speedTest.active
LoopCond2(l) == loops[l].i < SimIterations /\ st.active

\* Build 1, condition true: runDownloadTest dials and starts its timer.
LoopEnter1(l) ==
    /\ build = 1 /\ loops[l].pc = "cond"
    /\ LoopCond1(l)
    /\ Local(l, [loops[l] EXCEPT !.pc = "xfer", !.t0 = now])

\* Build 1: the download ends at EOF, after the chunkSize bytes the server wrote.
\* A download that is answered is over within MaxXfer seconds.
XferOk(l) ==
    /\ loops[l].pc = "xfer" /\ now - loops[l].t0 <= MaxXfer
    /\ \E totalBytes \in {chunkSize} :
         Local(l, [loops[l] EXCEPT !.pc = "add", !.t0 = 0, !.mrun = cur,
                       !.speed = measureSpeed(totalBytes, now - loops[l].t0)])

\* Build 1: generateTestData returned nil in handleSpeedTestConn, which closes
\* the connection without writing: the download meets EOF at once, after no byte.
XferNoData(l) ==
    /\ loops[l].pc = "xfer" /\ now = loops[l].t0
    /\ Local(l, [loops[l] EXCEPT !.pc = "add", !.t0 = 0, !.mrun = cur, !.gerr = TRUE,
                                 !.speed = measureSpeed(0, now - loops[l].t0)])

\* Build 1: net.Dial or conn.Read failed: runDownloadTest returns an error, break.
XferErr(l) ==
    /\ loops[l].pc = "xfer" /\ now - loops[l].t0 <= MaxXfer
    /\ Local(l, [loops[l] EXCEPT !.pc = "fin", !.t0 = 0, !.derr = TRUE])

\* Build 2, condition true: draw the simulated speed.
LoopEnter2(l) ==
    /\ build = 2 /\ loops[l].pc = "cond"
    /\ LoopCond2(l)
    /\ \E v \in SimSpeeds :
         Local(l, [loops[l] EXCEPT !.pc = "add", !.speed = v, !.mrun = cur])

\* The loop is left: the condition is false (build 1), i reached 20 or break (build 2).
LoopExit(l) ==
    /\ loops[l].pc = "cond"
    /\ IF build = 1 THEN ~LoopCond1(l) ELSE ~LoopCond2(l)
    /\ Local(l, [loops[l] EXCEPT !.pc = "fin"])

\* speedTest.addSpeed(speed).  Nothing stands between its return and the
\* call of conn.WriteJSON(msg): at pc = "write" the loop is in that write.
LoopAdd(l) ==
    /\ loops[l].pc = "add" /\ Locked(l)
    /\ st' = addSpeed(st, loops[l].speed)
    /\ mu' = Unlock(mu, l)
    /\ loops' = [loops EXCEPT ![l] = [@ EXCEPT !.pc = "write", !.mrun = 0]]
    /\ hist' = IF st.active THEN [hist EXCEPT ![cur] = Append(@, loops[l].speed)] ELSE hist
    /\ origin' = IF st.active THEN Append(origin, loops[l].mrun) ELSE origin
    /\ UNCHANGED <<build, now, conn, hpc, out, cur, nframes, setup, ender, clean, stopped>>

\* conn.WriteJSON(speed message) succeeds; then time.Sleep(time.Second) begins.
LoopWriteOk(l) ==
    /\ loops[l].pc = "write" /\ conn = "up"
    /\ out' = Append(out, SpeedMsg(loops[l].speed, cur))
    /\ loops' = [loops EXCEPT ![l] = [@ EXCEPT !.pc = "sleep", !.speed = Zero,
                     !.gerr = FALSE,
                     !.wake = IF build = 1 THEN now + sleepSeconds ELSE 0]]
    /\ UNCHANGED <<build, st, now, conn, hpc, cur, nframes, setup, mu, ghost>>

\* conn.WriteJSON(speed message) fails (the transport breaks, or is already
\* broken or closed): log, break.  A broken transport stays broken.
LoopWriteErr(l) ==
    /\ loops[l].pc = "write"
    /\ conn' = IF conn = "up" THEN "down" ELSE conn
    /\ loops' = [loops EXCEPT ![l] = [@ EXCEPT !.pc = "fin", !.speed = Zero,
                                               !.gerr = FALSE, !.werr = TRUE]]
    /\ UNCHANGED <<build, st, now, hpc, out, cur, nframes, setup, mu, ghost>>

\* time.Sleep returns after a second; build 2 then counts i++.
\* Build 2 never reads the clock, so its sleep is not timed.
LoopWake(l) ==
    /\ loops[l].pc = "sleep"
    /\ build = 1 => now >= loops[l].wake
    /\ Local(l, [loops[l] EXCEPT !.pc = "cond", !.wake = 0,
                                 !.i = IF build = 2 THEN @ + 1 ELSE @])

\* After the loop: if speedTest.active { ... }, read without the lock.
LoopFinYes(l) ==
    /\ loops[l].pc = "fin" /\ st.active
    /\ Local(l, [loops[l] EXCEPT !.pc = "stop"])

LoopFinNo(l) ==
    /\ loops[l].pc = "fin" /\ ~st.active
    /\ loops' = [loops EXCEPT ![l] = Returned(@)]
    /\ stopped' = stopped \ {l}
    /\ UNCHANGED <<build, st, now, conn, hpc, out, cur, nframes, setup, mu,
                   hist, origin, ender, clean>>

\* speedTest.stop()
LoopStop(l) ==
    /\ loops[l].pc = "stop" /\ Locked(l)
    /\ st' = stop(st)
    /\ mu' = Unlock(mu, l)
    /\ loops' = [loops EXCEPT ![l] = [@ EXCEPT !.pc = "avg", !.erun = cur,
                                               !.own = st.active]]
    /\ stopped' = IF st.active THEN stopped \cup {cur} ELSE stopped
    /\ ender' = IF st.active THEN "loop" ELSE ender
    /\ UNCHANGED <<build, now, conn, hpc, out, cur, nframes, setup, hist, origin, clean>>

\* finalMsg := SpeedTestMessage{Type: "final", Average: speedTest.getAverage()}
\* Nothing stands between it and the call of conn.WriteJSON(finalMsg): at
\* pc = "wfinal" the loop is in that write.
LoopAvg(l) ==
    /\ loops[l].pc = "avg" /\ Locked(l)
    /\ loops' = [loops EXCEPT ![l] = [@ EXCEPT !.pc = "wfinal", !.avg = getAverage(st)]]
    /\ mu' = Unlock(mu, l)
    /\ UNCHANGED <<build, st, now, conn, hpc, out, cur, nframes, setup, ghost>>

\* conn.WriteJSON(finalMsg) succeeds.
LoopFinalOk(l) ==
    /\ loops[l].pc = "wfinal" /\ conn = "up"
    /\ out' = Append(out, FinalMsg(loops[l].avg, loops[l].erun, "loop"))
    /\ loops' = [loops EXCEPT ![l] = Returned(@)]
    /\ stopped' = stopped \ {l}
    /\ UNCHANGED <<build, st, now, conn, hpc, cur, nframes, setup, mu,
                   hist, origin, ender, clean>>

\* conn.WriteJSON(finalMsg) fails: log.
LoopFinalErr(l) ==
    /\ loops[l].pc = "wfinal"
    /\ conn' = IF conn = "up" THEN "down" ELSE conn
    /\ loops' = [loops EXCEPT ![l] = Returned(@)]
    /\ stopped' = stopped \ {l}
    /\ UNCHANGED <<build, st, now, hpc, out, cur, nframes, setup, mu,
                   hist, origin, ender, clean>>

\* A step of loop l that reads speedTest.active directly, not through a
\* method of the session and so without st.mu: the loop condition, which
\* reads it when the deadline has not passed (build 1) or when i < 20
\* (build 2), and the `if speedTest.active` after the loop.
ReadsActiveBare(l) ==
    \/ LoopEnter1(l) \/ LoopEnter2(l)
    \/ /\ LoopExit(l)
       /\ IF build = 1 THEN Before(now, loops[l].endTime)
          ELSE loops[l].i < SimIterations
    \/ LoopFinYes(l) \/ LoopFinNo(l)

(***************************************************************************)
(* The clock.  A loop that is neither in a download nor asleep runs at     *)
(* once: its statements take no measurable time.  A download takes at most *)
(* MaxXfer seconds, a sleep exactly sleepSeconds.  Only a loop in a        *)
(* download or asleep observes the passing of time, so the clock advances  *)
(* only while there is one.                                                *)
(***************************************************************************)
Waiting(l) ==
    \/ loops[l].pc \in {"idle", "done"}
    \/ loops[l].pc = "xfer" /\ (stalls \/ now - loops[l].t0 < MaxXfer)
    \/ loops[l].pc = "sleep" /\ now < loops[l].wake

\* A second passes.  Only build 1 reads the clock.
Tick ==
    /\ build = 1 /\ now < horizon
    /\ \A l \in Loops : Waiting(l)
    /\ \E l \in Loops : loops[l].pc \in {"xfer", "sleep"}
    /\ now' = now + 1
    /\ UNCHANGED <<build, st, conn, hpc, loops, out, cur, nframes, setup, mu, ghost>>

Next ==
    \/ \E f \in Frames : HStart(f)
    \/ \E f \in Frames : HStop(f)
    \/ \E f \in Frames : HSkip(f)
    \/ HFinalOk
    \/ HFinalErr
    \/ HReadErr
    \/ \E l \in Loops : LoopInit(l)
    \/ \E l \in Loops : LoopEnter1(l)
    \/ \E l \in Loops : XferOk(l)
    \/ \E l \in Loops : XferNoData(l)
    \/ \E l \in Loops : XferErr(l)
    \/ \E l \in Loops : LoopEnter2(l)
    \/ \E l \in Loops : LoopExit(l)
    \/ \E l \in Loops : LoopAdd(l)
    \/ \E l \in Loops : LoopWriteOk(l)
    \/ \E l \in Loops : LoopWriteErr(l)
    \/ \E l \in Loops : LoopWake(l)
    \/ \E l \in Loops : LoopFinYes(l)
    \/ \E l \in Loops : LoopFinNo(l)
    \/ \E l \in Loops : LoopStop(l)
    \/ \E l \in Loops : LoopAvg(l)
    \/ \E l \in Loops : LoopFinalOk(l)
    \/ \E l \in Loops : LoopFinalErr(l)
    \/ Tick

Spec == Init /\ [][Next]_vars

SpecDeep == InitDeep /\ [][Next]_vars

(***************************************************************************)
(* The session lock followed step by step: one run on the connection, a    *)
(* loop's st.mu.Lock() a step of its own.                                  *)
(***************************************************************************)
\* Where a loop is about to call addSpeed(), stop() or getAverage().
MethodPcs == {"add", "stop", "avg"}

InitMu ==
    InitProg(MaxFrames, 1, MaxTime) /\ call = NoCall /\ locks = TRUE /\ stalls = FALSE

\* st.mu.Lock() of the method loop l is calling: it waits while st.mu is taken.
MuLock(l) ==
    /\ locks /\ loops[l].pc \in MethodPcs
    /\ mu = {}
    /\ mu' = {l}
    /\ UNCHANGED <<build, st, now, conn, hpc, loops, out, cur, nframes, setup, ghost>>

NextMu == Next \/ \E l \in Loops : MuLock(l)

SpecMu == InitMu /\ [][NextMu]_vars

(***************************************************************************)
(* Progress.  One run on the connection (its start frame and one frame     *)
(* more), with the clock followed until after the longest deadline.  A     *)
(* goroutine that can take a step eventually takes one (the Go scheduler;  *)
(* a download completes or fails), and time passes.  Nothing is assumed of *)
(* the peer.                                                               *)
(***************************************************************************)
LiveHorizon == defaultDuration + MaxDuration + MaxXfer + sleepSeconds

InitLive == InitWith(1 + 1, 1, LiveHorizon)

\* Any step of the runSpeedTest goroutine l.
LoopStep(l) ==
    \/ LoopInit(l) \/ LoopEnter1(l) \/ XferOk(l) \/ XferNoData(l) \/ XferErr(l)
    \/ LoopEnter2(l) \/ LoopExit(l) \/ LoopAdd(l)
    \/ LoopWriteOk(l) \/ LoopWriteErr(l) \/ LoopWake(l)
    \/ LoopFinYes(l) \/ LoopFinNo(l) \/ LoopStop(l) \/ LoopAvg(l)
    \/ LoopFinalOk(l) \/ LoopFinalErr(l)

SpecLive ==
    /\ InitLive /\ [][Next]_vars
    /\ \A l \in Loops : WF_vars(LoopStep(l))
    /\ WF_vars(Tick)

(***************************************************************************)
(* Progress with a download that may stall.  runDownloadTest dials and     *)
(* reads with no deadline (main.go:102, 114): a read that gets neither     *)
(* data, nor end-of-stream, nor an error has no step that ends it.  The    *)
(* goroutine is scheduled as before; nothing makes a download end, and     *)
(* time goes on while it does not.                                         *)
(***************************************************************************)
InitStall ==
    InitProg(1 + 1, 1, LiveHorizon) /\ call = NoCall /\ locks = FALSE /\ stalls = TRUE

\* A step of the runSpeedTest goroutine l other than the end of a download.
LoopStepLocal(l) ==
    \/ LoopInit(l) \/ LoopEnter1(l) \/ LoopEnter2(l) \/ LoopExit(l) \/ LoopAdd(l)
    \/ LoopWriteOk(l) \/ LoopWriteErr(l) \/ LoopWake(l)
    \/ LoopFinYes(l) \/ LoopFinNo(l) \/ LoopStop(l) \/ LoopAvg(l)
    \/ LoopFinalOk(l) \/ LoopFinalErr(l)

SpecStall ==
    /\ InitStall /\ [][Next]_vars
    /\ \A l \in Loops : WF_vars(LoopStepLocal(l))
    /\ WF_vars(Tick)

(***************************************************************************)
(* getAverage and measureSpeed on their own: one call on arguments drawn   *)
(* from bounded sets, on a connection that receives nothing; and one       *)
(* download on its own: handleSpeedTestConn (spc, writes, wrote) and       *)
(* runDownloadTest (rpc, got) at the two ends of one bulk connection that  *)
(* holds avail bytes written and not yet read.                             *)
(***************************************************************************)
SampleValues == {Zero, Frac(100, 1), Frac(999, 1), measureSpeed(chunkSize, 1)}

SampleSeqs == UNION {[1..n -> SampleValues] : n \in 0..MaxSamples}

\* Byte counts up to the first whose product by 8 leaves the int64 range.
ByteCounts ==
    {0, 1, chunkSize, 2^(IntBits - 5), 2^(IntBits - 4) - 1, 2^(IntBits - 4)}

Calls ==
    {[NoCall EXCEPT !.op = "getAverage",
                    !.st = [active |-> a, speeds |-> sp, startTime |-> 0]] :
         a \in BOOLEAN, sp \in SampleSeqs}
    \cup {[NoCall EXCEPT !.op = "measureSpeed", !.bytes = b, !.seconds = e] :
         b \in ByteCounts, e \in 0..MaxSeconds}
    \cup {[NoCall EXCEPT !.op = "download", !.spc = "gen", !.rpc = "read",
                         !.seconds = e] : e \in 0..MaxSeconds}

InitFn == InitProg(0, 0, 0) /\ call \in Calls /\ locks = FALSE /\ stalls = FALSE

\* speedTest.getAverage() on the session call.st; after is the session it leaves.
CallGetAverage ==
    /\ call.op = "getAverage" /\ ~call.done
    /\ call' = [call EXCEPT !.ret = getAverage(call.st), !.after = call.st,
                            !.done = TRUE]
    /\ UNCHANGED <<build, st, now, conn, hpc, loops, out, cur, nframes,
                   mu, budget, maxRuns, horizon, locks, stalls, ghost>>

\* measureSpeed(totalBytes, time.Since(start))
CallMeasureSpeed ==
    /\ call.op = "measureSpeed" /\ ~call.done
    /\ call' = [call EXCEPT !.ret = measureSpeed(call.bytes, call.seconds),
                            !.done = TRUE]
    /\ UNCHANGED <<build, st, now, conn, hpc, loops, out, cur, nframes,
                   mu, budget, maxRuns, horizon, locks, stalls, ghost>>

\* A step of the download that changes nothing but the call record.
Bulk(c) ==
    /\ call.op = "download"
    /\ call' = c
    /\ UNCHANGED <<build, st, now, conn, hpc, loops, out, cur, nframes,
                   mu, budget, maxRuns, horizon, locks, stalls, ghost>>

\* testData := generateTestData(): rand.Read fills chunkSize bytes.
BulkGenerateOk ==
    /\ call.spc = "gen"
    /\ Bulk([call EXCEPT !.spc = "write"])

\* rand.Read fails: testData == nil, return; the deferred conn.Close() runs.
BulkGenerateFail ==
    /\ call.spc = "gen"
    /\ Bulk([call EXCEPT !.spc = "closed"])

\* conn.Write(testData) writes the whole block; return, conn.Close().
BulkWriteOk ==
    /\ call.spc = "write"
    /\ Bulk([call EXCEPT !.spc = "closed", !.writes = @ + 1,
                         !.wrote = @ + chunkSize, !.avail = @ + chunkSize])

\* conn.Write fails after n bytes (none, or a part of the block): log,
\* return, conn.Close().
BulkWriteErr ==
    /\ call.spc = "write"
    /\ \E n \in {0, chunkSize \div 2} :
           Bulk([call EXCEPT !.spc = "closed", !.writes = @ + 1,
                             !.wrote = @ + n, !.avail = @ + n])

\* n, err := conn.Read(buffer) returns some of the bytes at hand (all of
\* them, or half): totalBytes += n.
BulkRead ==
    /\ call.rpc = "read" /\ call.avail > 0
    /\ \E n \in {call.avail, (call.avail + 1) \div 2} :
           Bulk([call EXCEPT !.got = @ + n, !.avail = @ - n])

\* conn.Read returns io.EOF (the sender has closed, all is read): break,
\* measureSpeed(totalBytes, time.Since(start)).
BulkReadEOF ==
    /\ call.rpc = "read" /\ call.avail = 0 /\ call.spc = "closed"
    /\ Bulk([call EXCEPT !.rpc = "eof", !.done = TRUE,
                         !.ret = measureSpeed(call.got, call.seconds)])

\* conn.Read returns another error: return 0, err.
BulkReadErr ==
    /\ call.rpc = "read"
    /\ Bulk([call EXCEPT !.rpc = "err", !.done = TRUE])

NextFn ==
    \/ CallGetAverage \/ CallMeasureSpeed
    \/ BulkGenerateOk \/ BulkGenerateFail \/ BulkWriteOk \/ BulkWriteErr
    \/ BulkRead \/ BulkReadEOF \/ BulkReadErr

SpecFn == InitFn /\ [][NextFn]_vars

(***************************************************************************)
(* Vocabulary of the properties.                                           *)
(***************************************************************************)
\* Nothing is in progress: the handler is between frames or gone, every
\* launched loop has returned.
Quiescent ==
    /\ hpc # "final"
    /\ \A l \in Loops : loops[l].pc \in {"idle", "done"}

\* Loop l has executed its first statement and has not returned.
Started(l) == loops[l].pc \notin {"idle", "init", "done"}

\* The seconds loop l runs for: the duration it was called with (build 1),
\* or its iterations at one sleep each (build 2).
RunSeconds(l) ==
    IF build = 1 THEN loops[l].duration ELSE SimIterations * sleepSeconds

\* The duration a start frame f asks for, in seconds.
Requested(f) == IF f.duration = 0 THEN 10 ELSE f.duration

\* The only frame so far is one start: a single run that nobody stops.
PlainRun == cur = 1 /\ nframes = 1

\* Such a run is over, and neither a download nor a write has failed (the
\* transport stays down once a write has failed).
PlainDone ==
    /\ PlainRun /\ conn = "up"
    /\ loops[1].pc = "done" /\ ~loops[1].derr

(***************************************************************************)
(* C1.  Every run begun by a start command gets exactly one final message  *)
(* on its connection while the transport is up: never more than one, and   *)
(* one once everything has come to rest.                                   *)
(***************************************************************************)
C1_ExactlyOneFinal ==
    conn = "up" =>
        \A r \in 1..cur :
            /\ Cardinality(FinalsOf(r)) <= 1
            /\ Quiescent => Cardinality(FinalsOf(r)) = 1

(***************************************************************************)
(* C2.  When a stop command ends a running test, it is the stop handler    *)
(* that pushes the run's final message, and the loop sends none: once      *)
(* everything is at rest on a live connection the run has a final, and     *)
(* each of its finals was written by the handler.                          *)
(***************************************************************************)
C2_StopHandlerPushesFinal ==
    (ender = "handler" /\ conn = "up" /\ Quiescent) =>
        /\ FinalsOf(cur) # {}
        /\ \A k \in FinalsOf(cur) : out[k].by = "handler"

(***************************************************************************)
(* C3, as the specification states it.  A run of d seconds that nobody     *)
(* stops and that meets no error sends floor(d / interval) speed messages  *)
(* and then exactly one final.                                             *)
(***************************************************************************)
C3_FloorSpeedsThenFinal ==
    PlainDone =>
        /\ Cardinality(SpeedsOf(1)) = RunSeconds(1) \div sleepSeconds
        /\ Cardinality(FinalsOf(1)) = 1
        /\ out[Len(out)].type = "final"

(***************************************************************************)
(* C3, as the code has it.  A run of d seconds that nobody stops never     *)
(* sends more than floor(d / interval) speed messages (in build 1 each     *)
(* iteration lasts a download and a sleep, so there may be fewer); build 2 *)
(* sends exactly its fixed number of iterations when it ends without       *)
(* error; the run that ends without error then has exactly one final, sent *)
(* last.                                                                   *)
(***************************************************************************)
C3_AtMostFloorSpeeds ==
    /\ PlainRun => Cardinality(SpeedsOf(1)) <= RunSeconds(1) \div sleepSeconds
    /\ PlainDone =>
          /\ build = 2 => Cardinality(SpeedsOf(1)) = SimIterations
          /\ Cardinality(FinalsOf(1)) = 1
          /\ out[Len(out)].type = "final"

\* A run of build 1 that sent a speed message in each of its d seconds, then the final.
C3_FullRun ==
    /\ PlainDone /\ build = 1
    /\ loops[1].duration = MaxDuration
    /\ Cardinality(SpeedsOf(1)) = MaxDuration

(***************************************************************************)
(* C4.  The average of every final message of a run is the arithmetic mean *)
(* of the samples that run recorded (0 for none).                          *)
(***************************************************************************)
C4_FinalIsMeanOfRun ==
    \A k \in DOMAIN out :
        (out[k].type = "final" /\ out[k].run >= 1) =>
            out[k].val = Mean(hist[out[k].run])

(***************************************************************************)
(* C5.  addSpeed(v) appends v if the session is running at the call and    *)
(* leaves the session alone otherwise; samples change in no other way than *)
(* by such an append or by the reset of start(); while the session stays   *)
(* not running, samples and average stay as they are.                      *)
(***************************************************************************)
C5_AppendOnlyWhileRunning ==
    [][ /\ \A l \in Loops :
              LoopAdd(l) =>
                  st' = IF st.active
                        THEN [st EXCEPT !.speeds = Append(st.speeds, loops[l].speed)]
                        ELSE st
        /\ st'.speeds # st.speeds =>
              \/ /\ st.active
                 /\ Len(st'.speeds) = Len(st.speeds) + 1
                 /\ SubSeq(st'.speeds, 1, Len(st.speeds)) = st.speeds
              \/ st'.speeds = <<>> /\ cur' = cur + 1
        /\ (~st.active /\ ~st'.active /\ st' # st) =>
              /\ st'.speeds = st.speeds
              /\ getAverage(st') = getAverage(st)
      ]_vars

\* The first run's loop is past its addSpeed call and there is no sample:
\* the call came after a stop and its sample was dropped.
C5_SampleDiscarded ==
    /\ cur = 1 /\ ~st.active /\ st.speeds = <<>>
    /\ loops[1].pc = "write"

(***************************************************************************)
(* C6.  When the runs before a start have all had their final sent, the    *)
(* samples of the new run hold nothing that was measured in an earlier     *)
(* run.                                                                    *)
(***************************************************************************)
C6_NoSampleOfEarlierRun ==
    clean => \A i \in DOMAIN origin : origin[i] = cur

(***************************************************************************)
(* C7.  stop() is idempotent: every call leaves the session not running    *)
(* and its samples and start time as they were, a call on a session that   *)
(* is not running changes nothing, and a second call would change nothing. *)
(***************************************************************************)
C7_StopIdempotent ==
    [][ ((\E f \in Frames : HStop(f)) \/ (\E l \in Loops : LoopStop(l))) =>
            /\ ~st'.active
            /\ st'.speeds = st.speeds
            /\ st'.startTime = st.startTime
            /\ ~st.active => st' = st
            /\ stop(st') = st'
      ]_vars

\* A loop has called stop() after the stop handler had ended the run, on a
\* session that holds samples.
C7_SecondStop ==
    \E l \in Loops :
        /\ loops[l].pc = "avg" /\ loops[l].erun = cur
        /\ ender = "handler" /\ ~st.active /\ st.speeds # <<>>

(***************************************************************************)
(* C8.  A loop whose write has failed attempts no further write on the     *)
(* connection, the final included: it never stands in the block that       *)
(* stops the session, takes the average and writes the final.              *)
(***************************************************************************)
C8_NoWriteAfterFailedWrite ==
    \A l \in Loops : loops[l].werr => loops[l].pc \notin {"stop", "avg", "wfinal"}

(***************************************************************************)
(* C9, as the specification states it.  A start frame with no duration, or *)
(* with 0, gives the run it launches 10 seconds; one with a positive d     *)
(* gives it d seconds.                                                     *)
(***************************************************************************)
C9_DeadlineFromDuration ==
    [][ \A f \in Frames :
            HStart(f) =>
                (IF build = 1 THEN loops'[cur'].duration
                 ELSE SimIterations * sleepSeconds) = Requested(f)
      ]_vars

(***************************************************************************)
(* C9, as the code has it.  In build 1 a start frame with no duration, or  *)
(* with 0, launches its loop with 10 seconds and one with a positive d     *)
(* with d seconds, and the loop's deadline is the time of its first        *)
(* statement plus that many seconds.  Build 2 decodes no duration: its     *)
(* loop gets none, has no deadline and runs its fixed number of            *)
(* iterations.                                                             *)
(***************************************************************************)
C9_DeadlineFromDurationBuild1 ==
    [][ /\ \A f \in Frames :
              HStart(f) =>
                  /\ build = 1 => loops'[cur'].duration = Requested(f)
                  /\ build = 2 => loops'[cur'] = Launched2
        /\ \A l \in Loops :
              /\ LoopInit(l) => loops'[l].endTime = now + loops[l].duration
              /\ build = 2 =>
                    /\ loops'[l].duration = 0 /\ loops'[l].endTime = 0
                    /\ loops'[l].i <= SimIterations
                    /\ LoopEnter2(l) => loops[l].i < SimIterations
      ]_vars

\* Build 1 has given a run the default 10 seconds: the loop of a start frame
\* without duration has set its deadline 10 seconds ahead.
C9_DefaultedRun ==
    \E l \in Loops :
        /\ build = 1 /\ Started(l)
        /\ loops[l].duration = 10
        /\ loops[l].endTime = now + 10

(***************************************************************************)
(* C10.  A frame that is binary, is not well-formed JSON or has an unknown *)
(* type changes nothing of the session, the loops or the run count, writes *)
(* nothing, and leaves the read-loop reading on an open connection.        *)
(***************************************************************************)
C10_BadFrameSkipped ==
    [][ \A f \in BadFrames :
            Handle(f) =>
                /\ UNCHANGED <<st, loops, out, cur, conn>>
                /\ hpc' = "read" /\ conn' = "up"
      ]_vars

\* Build 2 has read a start and one more frame, is reading again, has
\* written nothing and the run goes on: the other frame was skipped.
C10_SkippedBesideStart ==
    /\ build = 2 /\ nframes = 2 /\ cur = 1
    /\ out = <<>> /\ st.active
    /\ hpc = "read" /\ conn = "up"

(***************************************************************************)
(* C11.  getAverage() returns the sum of the samples divided by their      *)
(* number for every non-empty samples sequence, 0 for the empty one, and   *)
(* leaves the session as it was.                                           *)
(***************************************************************************)
C11_AverageIsSumOverLen ==
    (call.op = "getAverage" /\ call.done) =>
        /\ call.ret = IF Len(call.st.speeds) = 0 THEN Zero
                      ELSE FracDivInt(SumSeq(call.st.speeds), Len(call.st.speeds))
        /\ call.after = call.st

\* getAverage() has returned 1099/3 for the samples 100, 0, 999.
C11_AveragedThree ==
    /\ call.op = "getAverage" /\ call.done
    /\ call.st.speeds = <<Frac(100, 1), Zero, Frac(999, 1)>>
    /\ call.ret = Frac(1099, 3)

(***************************************************************************)
(* C12.  measureSpeed(bytes, elapsed) returns 0 when elapsed is 0 and      *)
(* bytes * 8 / 1000000 / seconds when it is positive, for every byte count *)
(* from 0 on, those whose product by 8 leaves the int64 range included.    *)
(***************************************************************************)
C12_MeasureIsBitsPerMicrosecond ==
    (call.op = "measureSpeed" /\ call.done) =>
        call.ret = IF call.seconds = 0 THEN Zero
                   ELSE Frac(call.bytes * 8, 1000000 * call.seconds)

\* The parties in a write on the connection: loops in conn.WriteJSON of a
\* speed or a final message, and the handler (written 0) in that of its final.
Writers ==
    {l \in Loops : loops[l].pc \in {"write", "wfinal"}}
    \cup (IF hpc = "final" THEN {0} ELSE {})

\* The loops that have been launched and have not returned.
Live == {l \in Loops : loops[l].pc \notin {"idle", "done"}}

\* The stop() of the handler that is about to write its final was the one
\* that ended the current run: the run was ended by the handler, which has
\* written no final for it yet.
HandlerOwns ==
    /\ ender = "handler"
    /\ \A k \in FinalsOf(cur) : out[k].by # "handler"

(***************************************************************************)
(* C13.  A final message is written only by the party whose own stop()     *)
(* turned the session from running to not running: the handler writes none *)
(* for a stop frame that found no run active, and a loop writes none when  *)
(* the session was no longer running at its stop().                        *)
(***************************************************************************)
C13_FinalOnlyByEnder ==
    [][ /\ HFinalOk => HandlerOwns
        /\ \A l \in Loops : LoopFinalOk(l) => loops[l].own
      ]_vars

(***************************************************************************)
(* C14.  At most one runSpeedTest loop of the session is live at any time. *)
(***************************************************************************)
C14_AtMostOneLoop == Cardinality(Live) <= 1

(***************************************************************************)
(* C15.  Once a newer start() has been performed, no step of a loop        *)
(* launched for an earlier run changes the session (no sample appended,    *)
(* running not set to false) or writes a message.                          *)
(***************************************************************************)
C15_OldLoopIsInert ==
    [][ \A l \in Loops :
            (l < cur /\ loops'[l] # loops[l]) => (st' = st /\ out' = out)
      ]_vars

(***************************************************************************)
(* C16.  Writes on the connection are serialized: never are two parties    *)
(* (a loop and the stop handler, or two loops) in a write at once.         *)
(***************************************************************************)
C16_WritesSerialized == Cardinality(Writers) <= 1

(***************************************************************************)
(* C17.  Once a stop() has ended the run a loop was launched for, that     *)
(* loop begins no new sample measurement: its next check of the loop       *)
(* condition takes it out of the loop.                                     *)
(***************************************************************************)
C17_NoMeasurementAfterStop ==
    [][ \A l \in Loops :
            l \in stopped => ~(LoopEnter1(l) \/ LoopEnter2(l))
      ]_vars

(***************************************************************************)
(* C18.  Every read or write of a session field by the read-loop or a      *)
(* driver loop is made holding the session's lock: no step reads           *)
(* speedTest.active without it.                                            *)
(***************************************************************************)
C18_EveryAccessLocked ==
    [][ \A l \in Loops : ~ReadsActiveBare(l) ]_vars

(***************************************************************************)
(* C19.  When the payload of a download could not be generated, the sample *)
(* is aborted: no value is recorded for it and no speed message is sent    *)
(* for it.                                                                 *)
(***************************************************************************)
C19_GenerationFailureAborts ==
    [][ \A l \in Loops :
            loops[l].gerr =>
                /\ LoopAdd(l) => st'.speeds = st.speeds
                /\ ~LoopWriteOk(l)
      ]_vars

(***************************************************************************)
(* C20.  After every start the session eventually is not running again,    *)
(* and the loop launched for the run eventually returns, whether the run   *)
(* ends by its deadline, by a stop frame or by a transport error.          *)
(***************************************************************************)
C20_EventuallyIdle ==
    /\ st.active ~> ~st.active
    /\ \A l \in Loops : (loops[l].pc # "idle") ~> (loops[l].pc = "done")

\* A run of the default 10 seconds has ended at its deadline: the loop ended
\* it, has returned, and the session is not running.
C20_RunTimedOut ==
    /\ build = 1 /\ cur = 1 /\ ender = "loop" /\ ~st.active
    /\ loops[1].pc = "done" /\ loops[1].duration = defaultDuration
    /\ now >= defaultDuration

(***************************************************************************)
(* C21.  Once the handler has closed the connection no loop of its session *)
(* attempts a write on it, and no loop is still running: the handler has   *)
(* waited for its loops, or stopped them, before it returned.              *)
(***************************************************************************)
C21_NoLoopAfterClose ==
    [][ conn = "closed" =>
            \A l \in Loops :
                /\ ~(LoopWriteErr(l) \/ LoopFinalErr(l))
                /\ loops'[l] = loops[l]
      ]_vars

(***************************************************************************)
(* C22.  A loop is inside st.mu only while it is in addSpeed(), stop() or  *)
(* getAverage(), never in a download, a write on the connection or a       *)
(* sleep, and its next step leaves st.mu: a stop() of the handler waits    *)
(* for no suspension point of the loop.                                    *)
(***************************************************************************)
C22_LockNotHeldAcrossWaits ==
    [][ \A l \in Loops :
            l \in mu =>
                /\ loops[l].pc \in MethodPcs
                /\ loops'[l] # loops[l] => l \notin mu'
      ]_vars

\* A loop is inside st.mu while the session runs and the handler is at its
\* read with a frame to come: a stop frame now has to wait for the loop.
C22_StopWouldWait ==
    /\ locks /\ mu # {} /\ st.active
    /\ CanRead /\ nframes < budget

(***************************************************************************)
(* C23.  A download that stalls does not hang the session: a loop that is  *)
(* in a download eventually is out of it, has returned, and the session is *)
(* not running.                                                            *)
(***************************************************************************)
C23_StalledTransferEnds ==
    \A l \in Loops :
        (loops[l].pc = "xfer") ~> (loops[l].pc = "done" /\ ~st.active)

(***************************************************************************)
(* C24.  A download that ended at end-of-stream was sent one block of      *)
(* chunkSize bytes in one write, and counted chunkSize bytes.              *)
(***************************************************************************)
C24_OneBlockPerConnection ==
    (call.op = "download" /\ call.rpc = "eof") =>
        /\ call.writes = 1
        /\ call.wrote = chunkSize
        /\ call.got = chunkSize

(***************************************************************************)
(* C25.  Within a run the final message is the last one: every speed       *)
(* message of a run is written before each final message of that run.      *)
(***************************************************************************)
C25_FinalIsLast ==
    \A r \in 1..cur :
        \A k \in FinalsOf(r) : \A j \in SpeedsOf(r) : j < k

\* The values of the speed messages of run r, in the order they were written.
SentOf(r) ==
    LET OfRun(m) == m.type = "speed" /\ m.run = r
        msgs == SelectSeq(out, OfRun)
    IN  [k \in 1..Len(msgs) |-> msgs[k].val]

IsPrefix(a, b) == Len(a) <= Len(b) /\ SubSeq(b, 1, Len(a)) = a

(***************************************************************************)
(* C26.  Every value sent in a speed message of a run was appended to the  *)
(* samples of that run, in the order sent, and once everything is at rest  *)
(* each final of the run carries the mean of the values sent in it: a      *)
(* sample that addSpeed() discarded is not sent.                           *)
(***************************************************************************)
C26_SentAreTheSamples ==
    \A r \in 1..cur :
        /\ IsPrefix(SentOf(r), hist[r])
        /\ Quiescent => \A k \in FinalsOf(r) : out[k].val = Mean(SentOf(r))

====
